---- MODULE Spec2Model ----
(***************************************************************************)
(* A model of the two analysis notebooks of the repository:                *)
(*                                                                         *)
(*   - multilevel_python/notebooks/nhanes_bp.ipynb: load and merge three   *)
(*     survey files, reshape wide to long, drop incomplete rows, derive    *)
(*     variables, subsample, then fit model1 .. model11;                   *)
(*   - the mediation notebook (src/unnamed/part_000): seed the random      *)
(*     source, then two loops over mode 0, 1, 2.                           *)
(*                                                                         *)
(* Every code cell is one action, except the last cell of nhanes_bp, which *)
(* holds two fits (model10, model11) and is two actions.  The statistics   *)
(* library (OLS, MixedLM, Mediation) and the random generator are external *)
(* to the repository: a fit is a choice among the results the solver can   *)
(* return, the generator is a small deterministic state machine.           *)
(***************************************************************************)
EXTENDS Integers, Sequences, FiniteSets, TLC

VARIABLES
    pc,       \* nhanes_bp: the next cell to run
    df,       \* nhanes_bp: the merged wide table (a sequence of rows)
    dx,       \* nhanes_bp: the long table (a sequence of rows)
    ds2,      \* nhanes_bp: the systolic subset of dx
    ds3,      \* nhanes_bp: the diastolic subset of dx
    result,   \* nhanes_bp: the result of the latest fit
    icc,      \* nhanes_bp: the intraclass correlation derived from the latest fit
    out,      \* nhanes_bp: what has been printed, in order
    mpc,      \* mediation: per run, the next step
    rng,      \* mediation: per run, the state of the shared generator
    tables,   \* mediation: per run, the tables gendat has returned, in order
    ests,     \* mediation: per run, the estimates returned, in order
    mout,     \* mediation: per run, what has been printed, in order
    frame     \* mediation: per run, the latest call: its argument, the
              \* generator state it started from and its locals at return

svars == <<pc, df, dx, ds2, ds3, result, icc, out>>
mvars == <<mpc, rng, tables, ests, mout, frame>>
vars ==
    <<pc, df, dx, ds2, ds3, result, icc, out, mpc, rng, tables, ests, mout,
      frame>>

---------------------------------------------------------------------------
(* Bounds of the model.                                                    *)

\* Subjects (SEQN values) the survey files can hold.
MaxSubjects == 2
\* Deviations from complete data one set of input files can hold: a missing
\* reading, a subject with no reading of one type, a missing BMI, a subject
\* absent from a file.
MaxMissing == 2
\* The row count of the subsample cell (5000 in the notebook), scaled so that
\* the cut falls inside tables of MaxSubjects subjects.
SubsampleRows == 10
\* Largest variance component or residual scale the solver returns.
MaxVar == 3
\* States of the random generator.
RngStates == 16
\* The sample size of the mediation notebook (400 there), scaled.
n == 2
\* Calls made one after the other in one session of the mediation notebook.
MaxCalls == 2

---------------------------------------------------------------------------
(* Constants of the notebooks.                                             *)

\* np.random.seed(2343)
SeedValue == 2343
\* Mediation(...).fit(n_rep=100)
n_rep == 100

---------------------------------------------------------------------------
(* Missing values.  A cell of a table is a set: empty for NaN, {v} for the *)
(* value v.                                                                *)

NA == {}
Val(v) == {v}
IsNA(c) == c = {}

\* Apply f to every element of a sequence.
Map(f(_), s) == [i \in 1..Len(s) |-> f(s[i])]

RECURSIVE Flatten(_)
\* The concatenation of a sequence of sequences.
Flatten(ss) == IF ss = <<>> THEN <<>> ELSE Head(ss) \o Flatten(Tail(ss))

RECURSIVE SumSeq(_)
SumSeq(s) == IF s = <<>> THEN 0 ELSE Head(s) + SumSeq(Tail(s))

RECURSIVE GCD(_, _)
GCD(a, b) == IF b = 0 THEN a ELSE GCD(b, a % b)

Abs(a) == IF a < 0 THEN 0 - a ELSE a

\* The rational num/den (den # 0) in lowest terms with a positive denominator.
Frac(num, den) ==
    LET g == GCD(Abs(num), Abs(den))
        s == IF den < 0 THEN 0 - 1 ELSE 1
    IN  [num |-> (s * num) \div g, den |-> (s * den) \div g]

---------------------------------------------------------------------------
(* nhanes_bp: the column names.                                            *)

Digit(j) == <<"0", "1", "2", "3", "4", "5", "6", "7", "8", "9">>[j + 1]

\* "BPXSY%d" % j and "BPXDI%d" % j: a name is the sequence of its characters.
SyName(j) == <<"B", "P", "X", "S", "Y">> \o <<Digit(j)>>
DiName(j) == <<"B", "P", "X", "D", "I">> \o <<Digit(j)>>

Reps == <<1, 2, 3, 4>>
syvars == Map(SyName, Reps)
divars == Map(DiName, Reps)
vvars == syvars \o divars
idvars == <<"SEQN", "RIDAGEYR", "RIAGENDR", "BMXBMI">>

NVars == Len(vvars)

---------------------------------------------------------------------------
(* nhanes_bp: the three survey files.  A set of input files is complete    *)
(* data for subjects 1..MaxSubjects less a set of deviations: a reading    *)
(* that is missing ("bp"), a subject with no systolic ("nosy") or no       *)
(* diastolic ("nodi") reading, a BMI that is missing, a subject that one   *)
(* of the files does not hold.  Each file is keyed by SEQN and ordered by  *)
(* it.                                                                     *)

Subjects == 1..MaxSubjects

AgeOf(s) == 20 + s
SexOf(s) == 1 + (s % 2)
BMIOf(s) == 22 + s
\* Reading j of vvars of subject s: systolic for j in 1..4, diastolic after.
BPOf(s, j) == IF j <= Len(syvars) THEN 110 + 2 * j + s
              ELSE 70 + (j - Len(syvars)) * (j - Len(syvars)) + s

Deviations ==
    (Subjects \X {"bp"} \X (1..NVars))
        \cup (Subjects \X {"nosy", "nodi", "bmi", "nodemog", "nobpx", "nobmx"}
                  \X {0})

RECURSIVE SubsetsUpTo(_, _)
\* The subsets of S of at most k elements.
SubsetsUpTo(S, k) ==
    IF k = 0 \/ S = {} THEN {{}}
    ELSE LET x == CHOOSE y \in S : TRUE
             R == S \ {x}
         IN  SubsetsUpTo(R, k) \cup {T \cup {x} : T \in SubsetsUpTo(R, k - 1)}

\* The input files the model reads: up to MaxMissing deviations.
WideInputs == SubsetsUpTo(Deviations, MaxMissing)
\* Complete data only.
NarrowInputs == {{}}

RECURSIVE SeqOfSet(_)
\* The elements of a set of integers in increasing order.
SeqOfSet(S) ==
    IF S = {} THEN <<>>
    ELSE LET m == CHOOSE x \in S : \A y \in S : x <= y
         IN  <<m>> \o SeqOfSet(S \ {m})

DemogFile(D) ==
    LET row(s) == [SEQN |-> s, RIDAGEYR |-> Val(AgeOf(s)),
                   RIAGENDR |-> Val(SexOf(s))]
    IN  Map(row, SeqOfSet({s \in Subjects : <<s, "nodemog", 0>> \notin D}))

BpxFile(D) ==
    LET gone(s, j) ==
            \/ <<s, "bp", j>> \in D
            \/ j <= Len(syvars) /\ <<s, "nosy", 0>> \in D
            \/ j > Len(syvars) /\ <<s, "nodi", 0>> \in D
        cell(s, j) == IF gone(s, j) THEN NA ELSE Val(BPOf(s, j))
        row(s) == [SEQN |-> s,
                   bpcols |-> [v \in {vvars[j] : j \in 1..NVars} |->
                       cell(s, CHOOSE j \in 1..NVars : vvars[j] = v)]]
    IN  Map(row, SeqOfSet({s \in Subjects : <<s, "nobpx", 0>> \notin D}))

BmxFile(D) ==
    LET row(s) == [SEQN |-> s,
                   BMXBMI |-> IF <<s, "bmi", 0>> \in D THEN NA
                              ELSE Val(BMIOf(s))]
    IN  Map(row, SeqOfSet({s \in Subjects : <<s, "nobmx", 0>> \notin D}))

---------------------------------------------------------------------------
(* nhanes_bp: load and merge, wide to long.                                *)

\* pd.merge(left, right, left_on="SEQN", right_on="SEQN"): an inner join in
\* the order of the left rows.
Merge(left, right) ==
    LET matches(l) ==
            LET hit(r) == r.SEQN = l.SEQN
                join(r) == l @@ r
            IN  Map(join, SelectSeq(right, hit))
    IN  Flatten(Map(matches, left))

\* Melt with value_vars=syvars: the diastolic columns forgotten.
Melt_SyOnly(table) ==
    LET long(v) ==
            LET row(r) == [SEQN |-> r.SEQN, RIDAGEYR |-> r.RIDAGEYR,
                           RIAGENDR |-> r.RIAGENDR, BMXBMI |-> r.BMXBMI,
                           bpvar |-> v, bp |-> r.bpcols[v]]
            IN  Map(row, table)
    IN  Flatten(Map(long, syvars))

\* pd.melt(df, id_vars=idvars, value_vars=vvars, var_name='bpvar',
\* value_name='bp'): the rows of df once per value column, column by column.
Melt(table) ==
    LET long(v) ==
            LET row(r) == [SEQN |-> r.SEQN, RIDAGEYR |-> r.RIDAGEYR,
                           RIAGENDR |-> r.RIAGENDR, BMXBMI |-> r.BMXBMI,
                           bpvar |-> v, bp |-> r.bpcols[v]]
            IN  Map(row, table)
    IN  Flatten(Map(long, vvars))

\* The load cell: read the three files, merge them on SEQN.
Load(Inputs) ==
    /\ pc = "load"
    /\ \E D \in Inputs :
          df' = Merge(Merge(DemogFile(D), BpxFile(D)), BmxFile(D))
    /\ pc' = "melt"
    /\ UNCHANGED <<dx, ds2, ds3, result, icc, out, mvars>>

\* The melt cell.
MeltCell ==
    /\ pc = "melt"
    /\ dx' = Melt(df)
    /\ pc' = "dropna"
    /\ UNCHANGED <<df, ds2, ds3, result, icc, out, mvars>>

---------------------------------------------------------------------------
(* nhanes_bp: sort, complete cases, derived variables, subsample.          *)

\* sort_values(by='SEQN') uses an unstable sort: rows of equal SEQN come out
\* in an order the library decides.  The model lets them come out in the
\* order of vvars, or in an interleaved order like that of the recorded
\* output of the notebook (BPXSY1, ., BPXDI2, BPXSY3, BPXDI3, BPXSY2, ...).
TieOrders == {<<1, 2, 3, 4, 5, 6, 7, 8>>, <<1, 4, 6, 3, 7, 2, 5, 8>>}

SortBySEQN(rows, ord) ==
    LET group(s) ==
            LET pick(k) ==
                    LET hit(r) == r.SEQN = s /\ r.bpvar = vvars[k]
                    IN  SelectSeq(rows, hit)
            IN  Flatten(Map(pick, ord))
    IN  Flatten(Map(group, SeqOfSet({rows[i].SEQN : i \in 1..Len(rows)})))

\* A row with a blood pressure value, whatever else is missing.
Complete_BpOnly(r) == ~IsNA(r.bp)

\* A row with no missing value in any column.
Complete(r) ==
    /\ ~IsNA(r.RIDAGEYR)
    /\ ~IsNA(r.RIAGENDR)
    /\ ~IsNA(r.BMXBMI)
    /\ ~IsNA(r.bp)

\* dropna that drops every row of a subject with any incomplete row, as a
\* dropna of the wide table would.
DropNA_WholeSubject(rows) ==
    LET ok(r) == \A i \in 1..Len(rows) :
                     rows[i].SEQN = r.SEQN => Complete(rows[i])
    IN  SelectSeq(rows, ok)

\* dx.dropna()
DropNA(rows) == SelectSeq(rows, Complete)

\* The sort / dropna cell.
DropNACell ==
    /\ pc = "dropna"
    /\ \E ord \in TieOrders : dx' = DropNA(SortBySEQN(dx, ord))
    /\ pc' = "derive"
    /\ UNCHANGED <<df, ds2, ds3, result, icc, out, mvars>>

SY == <<"S", "Y">>
DI == <<"D", "I">>

\* The value of a cell that is not missing.
ValueOf(c) == CHOOSE v \in c : TRUE

\* dx.bpvar.str[3:5]
Bpt(bpvar) == SubSeq(bpvar, 4, 5)

\* dx.bpvar.str[5].astype(np.int)
Bpi(bpvar) == CHOOSE j \in 0..9 : Digit(j) = bpvar[6]

\* The sex indicator with the comparison taken against code 1 instead of 2.
Female_CodeOne(r) == IF r.RIAGENDR = Val(1) THEN 1 ELSE 0

\* (dx.RIAGENDR == 2).astype(np.int)
Female(r) == IF r.RIAGENDR = Val(2) THEN 1 ELSE 0

\* np.mean of a non-empty sequence of numbers, as a rational.
Mean(xs) == Frac(SumSeq(xs), Len(xs))

\* The per-subject mean without the filter on bpt: over all of the
\* subject's rows.
DiMean_AllTypes(rows) ==
    LET bpOf(r) == ValueOf(r.bp)
    IN  [s \in {rows[i].SEQN : i \in 1..Len(rows)} |->
            LET mine(r) == r.SEQN = s
            IN  Mean(Map(bpOf, SelectSeq(rows, mine)))]

\* dx.loc[dx.bpt=="DI", :].groupby("SEQN")["bp"].aggregate(np.mean): per
\* subject with a diastolic row, the mean of the subject's diastolic rows.
DiMean(rows) ==
    LET isDI(r) == r.bpt = DI
        di == SelectSeq(rows, isDI)
        bpOf(r) == ValueOf(r.bp)
    IN  [s \in {di[i].SEQN : i \in 1..Len(di)} |->
            LET mine(r) == r.SEQN = s
            IN  Mean(Map(bpOf, SelectSeq(di, mine)))]

\* The join as a left join: every row is kept, with a missing di_mean where
\* the subject has none.
MergeDiMean_Left(rows, di_mean) ==
    LET add(r) == r @@ [di_mean |-> IF r.SEQN \in DOMAIN di_mean
                                    THEN di_mean[r.SEQN] ELSE NA]
    IN  Map(add, rows)

\* pd.merge(dx, di_mean, left_on="SEQN", right_index=True): an inner join.
MergeDiMean(rows, di_mean) ==
    LET matched(r) == r.SEQN \in DOMAIN di_mean
        add(r) == r @@ [di_mean |-> di_mean[r.SEQN]]
    IN  Map(add, SelectSeq(rows, matched))

\* The columns bpt, bpi and female.
AddDerived(rows) ==
    LET add(r) == r @@ [bpt |-> Bpt(r.bpvar), bpi |-> Bpi(r.bpvar),
                        female |-> Female(r)]
    IN  Map(add, rows)

\* A printed item: its kind, the model it belongs to (0: none) and, for the
\* summary of a mixed model, its "Converged:" field.
Line(kind, model, flag) == [kind |-> kind, model |-> model, flag |-> flag]

\* The derived-variables cell with the joined table bound to a name of its
\* own: dx gets the derived columns and keeps all of its rows.
DeriveCell_JoinNotKept ==
    /\ pc = "derive"
    /\ dx' = AddDerived(dx)
    /\ out' = Append(out, Line("head", 0, ""))
    /\ pc' = "subsample"
    /\ UNCHANGED <<df, ds2, ds3, result, icc, mvars>>

\* The derived-variables cell.
DeriveCell ==
    /\ pc = "derive"
    /\ LET d == AddDerived(dx)
       IN  dx' = MergeDiMean(d, DiMean(d))
    /\ out' = Append(out, Line("head", 0, ""))
    /\ pc' = "subsample"
    /\ UNCHANGED <<df, ds2, ds3, result, icc, mvars>>

Min(a, b) == IF a < b THEN a ELSE b

\* A cut that keeps a subject only with all of its rows: the first
\* SubsampleRows rows less those of a subject with rows beyond them.
Subsample_WholeSubjects(rows) ==
    LET cut == SubSeq(rows, 1, Min(SubsampleRows, Len(rows)))
        whole(r) == \A i \in 1..Len(rows) :
                        rows[i].SEQN = r.SEQN => i <= Len(cut)
    IN  SelectSeq(cut, whole)

\* dx.iloc[0:SubsampleRows, :]
Subsample(rows) == SubSeq(rows, 1, Min(SubsampleRows, Len(rows)))

\* The subsample cell.
SubsampleCell ==
    /\ pc = "subsample"
    /\ dx' = Subsample(dx)
    /\ pc' = "model1"
    /\ UNCHANGED <<df, ds2, ds3, result, icc, out, mvars>>

---------------------------------------------------------------------------
(* nhanes_bp: the fits.  The solver is external: a fit returns a random-   *)
(* intercept variance (cov_re), a residual scale and a convergence flag,   *)
(* and returns them whether or not its optimizer converged.                *)

Variances == (0 - 1)..MaxVar

\* The optimizers MixedLM.fit tries, in its order: it goes on to the next
\* one when one does not converge, and gives up after the last.
Optimizers == <<"bfgs", "lbfgs", "cg">>

\* What a fit returns: the two variance components, the convergence flag,
\* the number of optimizers tried (not converged: all of them) and se_var,
\* the estimated variance of a variance-component estimate, of which the
\* standard error is the square root.
Outcomes(covs, scales, flags, se_vars) ==
    {f \in [cov_re : covs, scale : scales, converged : flags,
            attempts : 1..Len(Optimizers), se_var : se_vars] :
        ~f.converged => f.attempts = Len(Optimizers)}

\* The results a fit can return.
WideFits == Outcomes(Variances, Variances, BOOLEAN, {1})
\* One ordinary result, of the first optimizer.
NarrowFits == {f \in Outcomes({1}, {1}, {TRUE}, {1}) : f.attempts = 1}
\* The results a fit can return as to its standard errors: the variance
\* under the root negative or positive; a fit that did not converge is
\* taken with a negative one, as model11 is recorded.
SeFits ==
    {f \in Outcomes({1}, {1}, BOOLEAN, {0 - 1, 1}) :
        /\ f.converged => f.attempts = 1
        /\ ~f.converged => f.se_var < 0}

\* a / b in floating point: a rational, or inf, -inf or nan when b is 0.
Div(a, b) ==
    IF b # 0 THEN [kind |-> "num"] @@ Frac(a, b)
    ELSE [kind |-> IF a = 0 THEN "nan" ELSE IF a > 0 THEN "inf" ELSE "-inf",
          num |-> 0, den |-> 0]

\* The share of the residual scale instead: scale / (cov_re + scale).
ICC_ScaleShare(f) == Div(f.scale, f.cov_re + f.scale)

\* The ratio of the two components instead: cov_re / scale.
ICC_OverScale(f) == Div(f.cov_re, f.scale)

\* result.cov_re / (result.cov_re + result.scale)
ICC(f) == Div(f.cov_re, f.cov_re + f.scale)

\* The "Converged:" field of a mixed model's summary.
Flag(f) == IF f.converged THEN "Yes" ELSE "No"

\* np.sqrt of the variance v: nan, a missing value, when v is negative;
\* else the root, kept as its radicand.
Sqrt(v) == IF v < 0 THEN NA ELSE Val(v)

\* A solver that reports what its first optimizer reached.
FitResult_FirstAttempt(k, data, f) ==
    [model |-> k, data |-> data, cov_re |-> f.cov_re, scale |-> f.scale,
     converged |-> f.converged, attempts |-> 1, bse |-> Sqrt(f.se_var)]

\* The result object of fit k on the table named data.
FitResult(k, data, f) ==
    [model |-> k, data |-> data, cov_re |-> f.cov_re, scale |-> f.scale,
     converged |-> f.converged, attempts |-> f.attempts,
     bse |-> Sqrt(f.se_var)]

\* The "Std.Err." field of a variance component in the summary: blank when
\* the standard error is nan.
StdErrField(f) == IF IsNA(Sqrt(f.se_var)) THEN "" ELSE "num"

\* The summary of fit k as printed: its "Converged:" field and the
\* "Std.Err." field of a variance component.
SummaryLine(k, f) ==
    [kind |-> "summary", model |-> k, flag |-> Flag(f),
     se |-> StdErrField(f)]

\* The result object of a fit of which the notebook only prints the summary:
\* it reads neither cov_re nor scale, and the model does not keep them.
SummaryResult(k, data, f) == FitResult(k, data, f)

\* No intraclass correlation is derived for the latest fit.
NoIcc == [model |-> 0, value |-> [kind |-> "none", num |-> 0, den |-> 0]]

\* The results of Fits as far as a summary shows them.
Summaries(Fits) == {[f EXCEPT !.cov_re = 0, !.scale = 0] : f \in Fits}

\* print(result.summary()) of a mixed model.
PrintSummary(k, f) == <<SummaryLine(k, f)>>

\* The two prints in the other order.
PrintIccSummary(k, f) == <<Line("icc", k, ""), SummaryLine(k, f)>>

\* print(result.summary()); print("icc=%f\n" % icc.values.flat[0])
PrintSummaryIcc(k, f) == <<SummaryLine(k, f), Line("icc", k, "")>>

\* The cells of the fits, in the order of the notebook.
ModelCells ==
    <<"model1", "model2", "model3", "model4", "model5", "model6", "model7",
      "model8", "model9", "model10", "model11", "done">>

\* A notebook that stops at a fit with an invalid standard error.
After_AbortOnInvalid(k, f) ==
    IF f.se_var < 0 THEN "failed" ELSE ModelCells[k + 1]

\* A notebook that stops at a fit that did not converge.
After_AbortOnFailure(k, f) ==
    IF f.converged THEN ModelCells[k + 1] ELSE "failed"

\* Where the notebook goes after fit k returned f and its summary was
\* printed: on to the next fit, whether or not f converged.
After(k, f) == ModelCells[k + 1]

IsSY(r) == r.bpt = SY
IsDI(r) == r.bpt = DI

\* What least squares returns: it has no optimizer, and its standard errors
\* are roots of a positive variance.
OLS(f) == [f EXCEPT !.converged = TRUE, !.attempts = 1, !.se_var = 1]

\* model1: OLS on dx; least squares has no optimizer and no "Converged:".
Model1(Fits) ==
    /\ pc = "model1"
    /\ \E f \in Summaries(Fits) :
          /\ result' = SummaryResult(1, "dx", OLS(f))
          /\ out' = Append(out, Line("summary", 1, ""))
          /\ pc' = After(1, OLS(f))
    /\ icc' = NoIcc
    /\ UNCHANGED <<df, dx, ds2, ds3, mvars>>

\* model2: random intercept per subject, systolic rows; icc2.
Model2(Fits) ==
    /\ pc = "model2"
    /\ ds2' = SelectSeq(dx, IsSY)
    /\ \E f \in Fits :
          /\ result' = FitResult(2, "ds2", f)
          /\ icc' = [model |-> 2, value |-> ICC(f)]
          /\ out' = out \o PrintSummaryIcc(2, f)
          /\ pc' = After(2, f)
    /\ UNCHANGED <<df, dx, ds3, mvars>>

\* model3: model2 with the covariate di_mean; icc3.
Model3(Fits) ==
    /\ pc = "model3"
    /\ \E f \in Fits :
          /\ result' = FitResult(3, "ds2", f)
          /\ icc' = [model |-> 3, value |-> ICC(f)]
          /\ out' = out \o PrintSummaryIcc(3, f)
          /\ pc' = After(3, f)
    /\ UNCHANGED <<df, dx, ds2, ds3, mvars>>

\* model4: random intercept per subject, diastolic rows; icc4.
Model4(Fits) ==
    /\ pc = "model4"
    /\ ds3' = SelectSeq(dx, IsDI)
    /\ \E f \in Fits :
          /\ result' = FitResult(4, "ds3", f)
          /\ icc' = [model |-> 4, value |-> ICC(f)]
          /\ out' = out \o PrintSummaryIcc(4, f)
          /\ pc' = After(4, f)
    /\ UNCHANGED <<df, dx, ds2, mvars>>

\* model5: random intercept and random slope on bpi, diastolic rows.
Model5(Fits) ==
    /\ pc = "model5"
    /\ ds3' = SelectSeq(dx, IsDI)
    /\ \E f \in Summaries(Fits) :
          /\ result' = SummaryResult(5, "ds3", f)
          /\ out' = out \o PrintSummary(5, f)
          /\ pc' = After(5, f)
    /\ icc' = NoIcc
    /\ UNCHANGED <<df, dx, ds2, mvars>>

\* ds3.loc[:, "bpi_cen"] = ds3.loc[:, "bpi"] - 1
AddBpiCen(rows) ==
    LET add(r) == r @@ [bpi_cen |-> r.bpi - 1]
    IN  Map(add, rows)

\* model6: model5 with the random slope on bpi_cen.
Model6(Fits) ==
    /\ pc = "model6"
    /\ ds3' = AddBpiCen(ds3)
    /\ \E f \in Summaries(Fits) :
          /\ result' = SummaryResult(6, "ds3", f)
          /\ out' = out \o PrintSummary(6, f)
          /\ pc' = After(6, f)
    /\ icc' = NoIcc
    /\ UNCHANGED <<df, dx, ds2, mvars>>

\* model7: both types jointly, one random intercept per subject.
Model7(Fits) ==
    /\ pc = "model7"
    /\ \E f \in Summaries(Fits) :
          /\ result' = SummaryResult(7, "dx", f)
          /\ out' = out \o PrintSummary(7, f)
          /\ pc' = After(7, f)
    /\ icc' = NoIcc
    /\ UNCHANGED <<df, dx, ds2, ds3, mvars>>

\* model8: model7 with a variance component per type, common variance.
Model8(Fits) ==
    /\ pc = "model8"
    /\ \E f \in Summaries(Fits) :
          /\ result' = SummaryResult(8, "dx", f)
          /\ out' = out \o PrintSummary(8, f)
          /\ pc' = After(8, f)
    /\ icc' = NoIcc
    /\ UNCHANGED <<df, dx, ds2, ds3, mvars>>

Ind(b) == IF b THEN 1 ELSE 0

\* dx["sy"] = (dx.bpt == "SY").astype(np.int); dx["di"] likewise.
AddSyDi(rows) ==
    LET add(r) == r @@ [sy |-> Ind(r.bpt = SY), di |-> Ind(r.bpt = DI)]
    IN  Map(add, rows)

\* model9: a variance component per type, separate variances.
Model9(Fits) ==
    /\ pc = "model9"
    /\ dx' = AddSyDi(dx)
    /\ \E f \in Summaries(Fits) :
          /\ result' = SummaryResult(9, "dx", f)
          /\ out' = out \o PrintSummary(9, f)
          /\ pc' = After(9, f)
    /\ icc' = NoIcc
    /\ UNCHANGED <<df, ds2, ds3, mvars>>

\* The six indicators taken from the repetition index alone, whatever the
\* type of the row.
AddRepIndicators_ByIndex(rows) ==
    LET add(r) ==
            r @@ [sy1 |-> Ind(r.bpi = 1), sy2 |-> Ind(r.bpi = 2),
                  sy3 |-> Ind(r.bpi = 3), di1 |-> Ind(r.bpi = 1),
                  di2 |-> Ind(r.bpi = 2), di3 |-> Ind(r.bpi = 3)]
    IN  Map(add, rows)

\* dx["sy1"] = (dx.bpvar == "BPXSY1").astype(np.int), ..., dx["di3"].
AddRepIndicators(rows) ==
    LET add(r) ==
            r @@ [sy1 |-> Ind(r.bpvar = SyName(1)),
                  sy2 |-> Ind(r.bpvar = SyName(2)),
                  sy3 |-> Ind(r.bpvar = SyName(3)),
                  di1 |-> Ind(r.bpvar = DiName(1)),
                  di2 |-> Ind(r.bpvar = DiName(2)),
                  di3 |-> Ind(r.bpvar = DiName(3))]
    IN  Map(add, rows)

\* model10: extra variance for the diastolic repetitions.
Model10(Fits) ==
    /\ pc = "model10"
    /\ dx' = AddRepIndicators(dx)
    /\ \E f \in Summaries(Fits) :
          /\ result' = SummaryResult(10, "dx", f)
          /\ out' = out \o PrintSummary(10, f)
          /\ pc' = After(10, f)
    /\ icc' = NoIcc
    /\ UNCHANGED <<df, ds2, ds3, mvars>>

\* model11: extra variance for the systolic repetitions.
Model11(Fits) ==
    /\ pc = "model11"
    /\ \E f \in Summaries(Fits) :
          /\ result' = SummaryResult(11, "dx", f)
          /\ out' = out \o PrintSummary(11, f)
          /\ pc' = After(11, f)
    /\ icc' = NoIcc
    /\ UNCHANGED <<df, dx, ds2, ds3, mvars>>

---------------------------------------------------------------------------
(* mediation: the shared random generator.  numpy's global generator is a  *)
(* deterministic state machine: seeding sets its state, every draw         *)
(* advances it.  Before it is seeded its state comes from the operating    *)
(* system and is arbitrary.                                                *)

Runs == {1, 2}

\* np.random.seed(v): the state the seed v sets.
SeedState(v) == v % RngStates

\* The state after one draw.
RngNext(s) == (5 * s + 3) % RngStates

\* The states a session can find the generator in: numpy's generator never
\* stays in the state it is in.
RngStart == {s \in 0..(RngStates - 1) : RngNext(s) # s}

\* The standard-normal value a draw returns, from the state it leaves.
Normal(s) == (s % 5) - 2

RECURSIVE Draws(_)
\* The transition of the generator over k draws: the state each state is
\* taken to.
Draws(k) ==
    IF k = 0 THEN [s \in 0..(RngStates - 1) |-> s]
    ELSE IF k % 2 = 1
         THEN LET g == Draws(k - 1)
              IN  [s \in 0..(RngStates - 1) |-> RngNext(g[s])]
         ELSE LET h == Draws(k \div 2)
              IN  [s \in 0..(RngStates - 1) |-> h[h[s]]]

\* The state after k draws.
Advance(s, k) == Draws(k)[s]

\* np.random.normal(size=k) from state s: the k values drawn.
Draw(s, k) == [i \in 1..k |-> Normal(Advance(s, i))]

---------------------------------------------------------------------------
(* mediation: gendat.  m is divided by sqrt(2), so a value of a table is   *)
(* (r + q * sqrt(2)) / 2 for integers r and q, and is kept as [r, q].      *)

Num(r, q) == [r |-> r, q |-> q]

\* (r1 + q1 * sqrt(2)) / 2 + (r2 + q2 * sqrt(2)) / 2
Add(v, w) == Num(v.r + w.r, v.q + w.q)

\* (r + q * sqrt(2)) / 2 divided by sqrt(2): (q + (r / 2) * sqrt(2)) / 2, for
\* an even r.
DivSqrt2(v) == Num(v.q, v.r \div 2)

\* The row gendat builds from one draw e1 of the exposure and the draws e2,
\* e3 of the noise of the mediator and of the outcome, treating every mode
\* as no mediation unless it is 1.
GendatRow_ElseNone(mode, e1, e2, e3) ==
    LET x == Num(2 * e1, 0)
        m == DivSqrt2(Add(x, Num(2 * e2, 0)))
    IN  [x |-> x, m |-> m,
         y |-> IF mode = 1 THEN Add(m, Num(2 * e3, 0))
               ELSE Add(x, Num(2 * e3, 0))]

\* The row with the mediator left undivided: m = x + e2.
GendatRow_NoScaling(mode, e1, e2, e3) ==
    LET x == Num(2 * e1, 0)
        m == Add(x, Num(2 * e2, 0))
    IN  [x |-> x, m |-> m,
         y |-> IF mode = 0 THEN Add(x, Num(2 * e3, 0))
               ELSE IF mode = 1 THEN Add(m, Num(2 * e3, 0))
               ELSE Add(Add(m, x), Num(2 * e3, 0))]

\* The row gendat builds from one draw e1 of the exposure and the draws e2,
\* e3 of the noise of the mediator and of the outcome.
GendatRow(mode, e1, e2, e3) ==
    LET x == Num(2 * e1, 0)
        m == DivSqrt2(Add(x, Num(2 * e2, 0)))
    IN  [x |-> x, m |-> m,
         y |-> IF mode = 0 THEN Add(x, Num(2 * e3, 0))
               ELSE IF mode = 1 THEN Add(m, Num(2 * e3, 0))
               ELSE Add(Add(m, x), Num(2 * e3, 0))]

\* gendat drawing from a generator of its own: the shared one is left in
\* the state it was found in.
Gendat_OwnGenerator(mode, s) ==
    LET e1 == Draw(s, n)
        e2 == Draw(Advance(s, n), n)
        e3 == Draw(Advance(s, 2 * n), n)
    IN  [table |-> [i \in 1..n |-> GendatRow(mode, e1[i], e2[i], e3[i])],
         rng |-> s]

\* gendat(mode) from generator state s: the table, and the state left.
Gendat(mode, s) ==
    LET e1 == Draw(s, n)
        e2 == Draw(Advance(s, n), n)
        e3 == Draw(Advance(s, 2 * n), n)
    IN  [table |-> [i \in 1..n |-> GendatRow(mode, e1[i], e2[i], e3[i])],
         rng |-> Advance(s, 3 * n)]

\* What is kept of a call: the function, its argument, the generator state
\* it started from, the table named df when it returns and the sets of
\* counterfactual values it made, in the order it made them.
Frame(fn, mode, s, table, sets) ==
    [fn |-> fn, mode |-> mode, rng0 |-> s, df |-> table, sets |-> sets]

NoFrame == Frame("none", 0, 0, <<>>, <<>>)

---------------------------------------------------------------------------
(* mediation: fake_mediation.  The two least-squares fits are the          *)
(* solver's: m_model has coefficients a0, a1 and scale sm, o_model has     *)
(* b0, b1, b2 and scale so, all determined by the table.  A prediction is  *)
(* linear in them, and is kept as its integer coefficients: a mediator     *)
(* value as [a0, a1, ssm] for a0*1 + a1*x + sqrt(sm)*e, an outcome value   *)
(* as [b0, b1, b2a0, b2a1, b2ssm, sso].                                    *)

\* m_model.predict(exog) for exposure x, plus np.sqrt(m_model.scale) * e.
MediatorCf(x, e) == [a0 |-> 1, a1 |-> x, ssm |-> e]

\* The bare prediction o_model.predict(exog), with no noise added.
OutcomeCf_NoNoise(x, mf, e) ==
    [b0 |-> 1, b1 |-> x, b2a0 |-> mf.a0, b2a1 |-> mf.a1, b2ssm |-> mf.ssm,
     sso |-> 0]

\* o_model.predict(exog) for exposure x and mediator mf, plus
\* np.sqrt(o_model.scale) * e.
OutcomeCf(x, mf, e) ==
    [b0 |-> 1, b1 |-> x, b2a0 |-> mf.a0, b2a1 |-> mf.a1, b2ssm |-> mf.ssm,
     sso |-> e]

\* The difference taken the other way round: y_low - y_high.
Contrast_Reversed(hi, lo) == [k \in DOMAIN hi |-> lo[k] - hi[k]]

\* y_high - y_low of one unit.
Contrast(hi, lo) == [k \in DOMAIN hi |-> hi[k] - lo[k]]

\* np.mean over the units, coefficient by coefficient.
MeanCf(cs) ==
    LET col(k) == [i \in 1..Len(cs) |-> cs[i][k]]
    IN  [k \in DOMAIN cs[1] |-> Mean(col(k))]

\* np.std(cs) / np.sqrt(n): the standard deviation (numpy's default divisor,
\* the number of units, ddof = 0) of the contrasts over the root of n.
StdErr(cs) == [of |-> cs, ddof |-> 0, root |-> n]

\* The table objects of a call are kept as a sequence: object k is heap[k],
\* a name of the code is bound to an object.  df is object 1.

\* A plain assignment where the code copies: no new object is made, the
\* name is bound to the latest object there is.
Copy_Alias(heap, o) == heap

\* heap[o].copy(): a new object with the rows of object o.
Copy(heap, o) == Append(heap, heap[o])

\* The object made last.
New(heap) == Len(heap)

\* heap[o][col] = vals: the column is set, row by row, in that object.
SetColumn(heap, o, col, vals) ==
    [heap EXCEPT ![o] = [i \in 1..Len(@) |-> [@[i] EXCEPT ![col] = vals[i]]]]

\* The integer a whole table value stands for.
Level(v) == v.r \div 2

\* The statements of fake_mediation after the two fits, in the order of the
\* code.
Body ==
    <<"df_xlow = df.copy()", "df_xlow.x = 0", "m_xlow",
      "df_xhigh = df.copy()", "df_xhigh.x = 1", "m_xhigh",
      "df0 = df.copy()", "df0.x = 0", "df0.m = m_xlow", "y_low",
      "df0.x = 0", "df0.m = m_xhigh", "y_high", "aie",
      "df0 = df.copy()", "df0.x = 0", "df0.m = m_xlow", "y_low",
      "df0.x = 1", "y_high", "ade">>

\* The locals of fake_mediation once df = gendat(mode) has returned g and
\* the two models are fitted: the rows they were fitted on, the table
\* objects, the names bound to them (0: not bound yet), the values computed
\* so far, the generator state and the counterfactual sets made.
Locals(g) ==
    [fitted |-> g.table, heap |-> <<g.table>>, df_xlow |-> 0, df_xhigh |-> 0, df0 |-> 0,
     m_xlow |-> <<>>, m_xhigh |-> <<>>, y_low |-> <<>>, y_high |-> <<>>,
     aie |-> 0, aie_se |-> 0, ade |-> 0, ade_se |-> 0,
     rng |-> g.rng, sets |-> <<>>]

\* The column of n copies of the level c.
AllRows(c) == [i \in 1..n |-> Num(2 * c, 0)]

\* name = df.copy(), for one of the names df_xlow, df_xhigh, df0.
CopyDf(E, name) ==
    LET h == Copy(E.heap, 1)
    IN  [E EXCEPT !.heap = h, ![name] = New(h)]

\* m_model.predict(exog=E.heap[o]) plus the noise of n fresh draws.
PredictM(E, o) ==
    LET e == Draw(E.rng, n)
    IN  [i \in 1..n |-> MediatorCf(Level(E.heap[o][i].x), e[i])]

\* o_model.predict(exog=df0) plus the noise of n fresh draws.
PredictY(E) ==
    LET e == Draw(E.rng, n)
        t == E.heap[E.df0]
    IN  [i \in 1..n |-> OutcomeCf(Level(t[i].x), t[i].m, e[i])]

\* The locals after one statement of the body.
Stmt(st, E) ==
    CASE st = "df_xlow = df.copy()" -> CopyDf(E, "df_xlow")
      [] st = "df_xlow.x = 0" ->
            [E EXCEPT !.heap = SetColumn(@, E.df_xlow, "x", AllRows(0))]
      [] st = "m_xlow" ->
            LET v == PredictM(E, E.df_xlow)
            IN  [E EXCEPT !.m_xlow = v, !.rng = Advance(@, n),
                          !.sets = Append(@, v)]
      [] st = "df_xhigh = df.copy()" -> CopyDf(E, "df_xhigh")
      [] st = "df_xhigh.x = 1" ->
            [E EXCEPT !.heap = SetColumn(@, E.df_xhigh, "x", AllRows(1))]
      [] st = "m_xhigh" ->
            LET v == PredictM(E, E.df_xhigh)
            IN  [E EXCEPT !.m_xhigh = v, !.rng = Advance(@, n),
                          !.sets = Append(@, v)]
      [] st = "df0 = df.copy()" -> CopyDf(E, "df0")
      [] st = "df0.x = 0" ->
            [E EXCEPT !.heap = SetColumn(@, E.df0, "x", AllRows(0))]
      [] st = "df0.x = 1" ->
            [E EXCEPT !.heap = SetColumn(@, E.df0, "x", AllRows(1))]
      [] st = "df0.m = m_xlow" ->
            [E EXCEPT !.heap = SetColumn(@, E.df0, "m", E.m_xlow)]
      [] st = "df0.m = m_xhigh" ->
            [E EXCEPT !.heap = SetColumn(@, E.df0, "m", E.m_xhigh)]
      [] st = "y_low" ->
            LET v == PredictY(E)
            IN  [E EXCEPT !.y_low = v, !.rng = Advance(@, n),
                          !.sets = Append(@, v)]
      [] st = "y_high" ->
            LET v == PredictY(E)
            IN  [E EXCEPT !.y_high = v, !.rng = Advance(@, n),
                          !.sets = Append(@, v)]
      [] st = "aie" ->
            LET d == [i \in 1..n |-> Contrast(E.y_high[i], E.y_low[i])]
            IN  [E EXCEPT !.aie = MeanCf(d), !.aie_se = StdErr(d)]
      [] st = "ade" ->
            LET d == [i \in 1..n |-> Contrast(E.y_high[i], E.y_low[i])]
            IN  [E EXCEPT !.ade = MeanCf(d), !.ade_se = StdErr(d)]

RECURSIVE Exec(_, _)
\* The locals after the statements of the body from the k-th on, started
\* from the locals E (E is evaluated once, then bound as v).
Exec(E, k) ==
    IF k > Len(Body) THEN E
    ELSE CHOOSE r \in {Exec(Stmt(Body[k], v), k + 1) : v \in {E}} : TRUE

\* fake_mediation(mode) from generator state s.
FakeMediation(mode, s) ==
    LET E == Exec(Locals(Gendat(mode, s)), 1)
        ret(R) ==
            [table |-> R.fitted,
             est |-> [kind |-> "fake", fit |-> R.fitted,
                      aie |-> R.aie, aie_se |-> R.aie_se,
                      ade |-> R.ade, ade_se |-> R.ade_se],
             rng |-> R.rng,
             frame |-> Frame("fake_mediation", mode, s, R.heap[1], R.sets)]
    IN  CHOOSE r \in {ret(v) : v \in {E}} : TRUE

\* Draws the library makes in Mediation(...).fit(n_rep): a number fixed by
\* its arguments (here: two parameter draws per replication).
MediationDraws == 2 * n_rep

\* One pass of the second loop: gendat, then the library's Mediation fit,
\* whose result is determined by the table and the generator state.
Mediation(mode, s) ==
    LET ret(g) ==
            [table |-> g.table,
             est |-> [kind |-> "Mediation", fit |-> g.table, from |-> g.rng],
             rng |-> Advance(g.rng, MediationDraws)]
    IN  CHOOSE r \in {ret(v) : v \in {Gendat(mode, s)}} : TRUE

Modes == <<0, 1, 2>>

At(cell, k) == [cell |-> cell, k |-> k]

\* After pass k of a loop over Modes: the next pass, or the cell after.
AfterPass(cell, k, after) ==
    IF k < Len(Modes) THEN At(cell, k + 1) ELSE At(after, 1)

\* A seed cell that leaves the generator as it is.
Seed_NoReset(r) ==
    /\ mpc[r] = At("seed", 1)
    /\ mpc' = [mpc EXCEPT ![r] = At("loop1", 1)]
    /\ UNCHANGED <<rng, tables, ests, mout, frame, svars>>

\* np.random.seed(2343)
Seed(r) ==
    /\ mpc[r] = At("seed", 1)
    /\ rng' = [rng EXCEPT ![r] = SeedState(SeedValue)]
    /\ mpc' = [mpc EXCEPT ![r] = At("loop1", 1)]
    /\ UNCHANGED <<tables, ests, mout, frame, svars>>

\* One pass of: for mode in 0, 1, 2: ... = fake_mediation(mode); print(...)
FakeMediationPass(r) ==
    /\ mpc[r].cell = "loop1"
    /\ LET mode == Modes[mpc[r].k]
       IN  \E f \in {FakeMediation(mode, rng[r])} :
           /\ rng' = [rng EXCEPT ![r] = f.rng]
           /\ tables' = [tables EXCEPT ![r] = Append(@, f.table)]
           /\ ests' = [ests EXCEPT ![r] = Append(@, f.est)]
           /\ mout' = [mout EXCEPT ![r] = Append(@, Line("AIE ADE", mode, ""))]
           /\ frame' = [frame EXCEPT ![r] = f.frame]
    /\ mpc' = [mpc EXCEPT ![r] = AfterPass("loop1", mpc[r].k, "loop2")]
    /\ UNCHANGED svars

\* One pass of: for mode in 0, 1, 2: df = gendat(mode); ...; print(...)
MediationPass(r) ==
    /\ mpc[r].cell = "loop2"
    /\ LET mode == Modes[mpc[r].k]
       IN  \E f \in {Mediation(mode, rng[r])} :
           /\ rng' = [rng EXCEPT ![r] = f.rng]
           /\ tables' = [tables EXCEPT ![r] = Append(@, f.table)]
           /\ ests' = [ests EXCEPT ![r] = Append(@, f.est)]
           /\ mout' = [mout EXCEPT ![r] =
                          Append(@, Line("med.summary", mode, ""))]
           /\ frame' = [frame EXCEPT ![r] =
                           Frame("gendat", mode, rng[r], f.table, <<>>)]
    /\ mpc' = [mpc EXCEPT ![r] = AfterPass("loop2", mpc[r].k, "done")]
    /\ UNCHANGED svars

\* The values gendat is called with: the three of the notebook and others.
ModeArgs == (0 - 1)..3

\* gendat(mode) called on its own, with any mode.
GendatCall(r) ==
    /\ mpc[r] = At("call", 1)
    /\ \E mode \in ModeArgs :
          \E g \in {Gendat(mode, rng[r])} :
              /\ rng' = [rng EXCEPT ![r] = g.rng]
              /\ tables' = [tables EXCEPT ![r] = Append(@, g.table)]
              /\ frame' = [frame EXCEPT ![r] =
                              Frame("gendat", mode, rng[r], g.table, <<>>)]
    /\ mpc' = [mpc EXCEPT ![r] = At("done", 1)]
    /\ UNCHANGED <<ests, mout, svars>>

\* fake_mediation(mode) called on its own, with any mode.
FakeMediationCall(r) ==
    /\ mpc[r] = At("call", 1)
    /\ \E mode \in ModeArgs :
          \E f \in {FakeMediation(mode, rng[r])} :
              /\ rng' = [rng EXCEPT ![r] = f.rng]
              /\ tables' = [tables EXCEPT ![r] = Append(@, f.table)]
              /\ ests' = [ests EXCEPT ![r] = Append(@, f.est)]
              /\ frame' = [frame EXCEPT ![r] = f.frame]
    /\ mpc' = [mpc EXCEPT ![r] = At("done", 1)]
    /\ UNCHANGED <<mout, svars>>

\* gendat(mode) called in a session in which other calls were made, with
\* no seeding in between.
SessionGendat(r) ==
    /\ mpc[r].cell = "session"
    /\ mpc[r].k <= MaxCalls
    /\ \E j \in 1..Len(Modes) :
          \E g \in {Gendat(Modes[j], rng[r])} :
              /\ rng' = [rng EXCEPT ![r] = g.rng]
              /\ tables' = [tables EXCEPT ![r] = Append(@, g.table)]
              /\ frame' = [frame EXCEPT ![r] =
                              Frame("gendat", Modes[j], rng[r], g.table, <<>>)]
    /\ mpc' = [mpc EXCEPT ![r] = At("session", mpc[r].k + 1)]
    /\ UNCHANGED <<ests, mout, svars>>

\* fake_mediation(mode) called in a session in which other calls were made,
\* with no seeding in between.
SessionFakeMediation(r) ==
    /\ mpc[r].cell = "session"
    /\ mpc[r].k <= MaxCalls
    /\ \E j \in 1..Len(Modes) :
          \E f \in {FakeMediation(Modes[j], rng[r])} :
              /\ rng' = [rng EXCEPT ![r] = f.rng]
              /\ tables' = [tables EXCEPT ![r] = Append(@, f.table)]
              /\ ests' = [ests EXCEPT ![r] = Append(@, f.est)]
              /\ frame' = [frame EXCEPT ![r] = f.frame]
    /\ mpc' = [mpc EXCEPT ![r] = At("session", mpc[r].k + 1)]
    /\ UNCHANGED <<mout, svars>>

---------------------------------------------------------------------------
(* The specifications.                                                     *)

SurveyIdle ==
    /\ pc = "off"
    /\ df = <<>> /\ dx = <<>> /\ ds2 = <<>> /\ ds3 = <<>>
    /\ result = FitResult(0, "", [cov_re |-> 0, scale |-> 0,
                                  converged |-> TRUE, attempts |-> 1,
                                  se_var |-> 1])
    /\ icc = NoIcc
    /\ out = <<>>

SurveyStart ==
    /\ pc = "load"
    /\ df = <<>> /\ dx = <<>> /\ ds2 = <<>> /\ ds3 = <<>>
    /\ result = FitResult(0, "", [cov_re |-> 0, scale |-> 0,
                                  converged |-> TRUE, attempts |-> 1,
                                  se_var |-> 1])
    /\ icc = NoIcc
    /\ out = <<>>

MediationIdle ==
    /\ mpc = [r \in Runs |-> At("off", 1)]
    /\ rng = [r \in Runs |-> 0]
    /\ tables = [r \in Runs |-> <<>>]
    /\ ests = [r \in Runs |-> <<>>]
    /\ mout = [r \in Runs |-> <<>>]
    /\ frame = [r \in Runs |-> NoFrame]

\* Two runs of the mediation notebook, each from an arbitrary generator state.
MediationStart ==
    /\ mpc = [r \in Runs |-> At("seed", 1)]
    /\ rng \in [Runs -> 0..(RngStates - 1)]
    /\ tables = [r \in Runs |-> <<>>]
    /\ ests = [r \in Runs |-> <<>>]
    /\ mout = [r \in Runs |-> <<>>]
    /\ frame = [r \in Runs |-> NoFrame]

\* Two calls of a function of the mediation notebook, each from an
\* arbitrary generator state.
GendatStart ==
    /\ mpc = [r \in Runs |-> At("call", 1)]
    /\ rng \in [Runs -> 0..(RngStates - 1)]
    /\ tables = [r \in Runs |-> <<>>]
    /\ ests = [r \in Runs |-> <<>>]
    /\ mout = [r \in Runs |-> <<>>]
    /\ frame = [r \in Runs |-> NoFrame]

\* One session of calls of the functions of the mediation notebook, from an
\* arbitrary generator state; the other run is not started.
SessionStart ==
    /\ mpc = [r \in Runs |-> IF r = 1 THEN At("session", 1) ELSE At("off", 1)]
    /\ rng \in [Runs -> 0..(RngStates - 1)]
    /\ rng[1] \in RngStart
    /\ rng[2] = 0
    /\ tables = [r \in Runs |-> <<>>]
    /\ ests = [r \in Runs |-> <<>>]
    /\ mout = [r \in Runs |-> <<>>]
    /\ frame = [r \in Runs |-> NoFrame]

\* nhanes_bp with the fits drawn from Fits and the files from Inputs.
Survey(Inputs, Fits) ==
    \/ Load(Inputs)
    \/ MeltCell
    \/ DropNACell
    \/ DeriveCell
    \/ SubsampleCell
    \/ Model1(Fits)
    \/ Model2(Fits)
    \/ Model3(Fits)
    \/ Model4(Fits)
    \/ Model5(Fits)
    \/ Model6(Fits)
    \/ Model7(Fits)
    \/ Model8(Fits)
    \/ Model9(Fits)
    \/ Model10(Fits)
    \/ Model11(Fits)

MediationNext == \E r \in Runs : Seed(r) \/ FakeMediationPass(r) \/ MediationPass(r)

\* nhanes_bp on every set of input files, each fit returning an ordinary result.
Init == SurveyStart /\ MediationIdle
Next == Survey(WideInputs, NarrowFits)
Spec == Init /\ [][Next]_vars

\* nhanes_bp on complete files, each fit returning any result.
InitFit == SurveyStart /\ MediationIdle
NextFit == Survey(NarrowInputs, WideFits)
SpecFit == InitFit /\ [][NextFit]_vars

\* nhanes_bp on complete files, each fit returning any standard error.
InitSe == SurveyStart /\ MediationIdle
NextSe == Survey(NarrowInputs, SeFits)
SpecSe == InitSe /\ [][NextSe]_vars

\* Two runs of the mediation notebook.
InitMed == SurveyIdle /\ MediationStart
NextMed == MediationNext
SpecMed == InitMed /\ [][NextMed]_vars

\* gendat called on its own.
InitGendat == SurveyIdle /\ GendatStart
NextGendat == \E r \in Runs : GendatCall(r)
SpecGendat == InitGendat /\ [][NextGendat]_vars

\* gendat and fake_mediation called one after the other, in any order.
InitSession == SurveyIdle /\ SessionStart
NextSession == \E r \in Runs : SessionGendat(r) \/ SessionFakeMediation(r)
SpecSession == InitSession /\ [][NextSession]_vars

\* fake_mediation called on its own.
InitFake == SurveyIdle /\ GendatStart
NextFake == \E r \in Runs : FakeMediationCall(r)
SpecFake == InitFake /\ [][NextFake]_vars

\* A run of either notebook.
InitAny == InitFit \/ InitMed
NextAny == NextFit \/ NextMed
SpecAny == InitAny /\ [][NextAny]_vars

---------------------------------------------------------------------------
(* Properties of nhanes_bp's data preparation, checked under Spec.         *)

IdsOf(r) == <<r.SEQN, r.RIDAGEYR, r.RIAGENDR, r.BMXBMI>>

IdsPresent(r) == ~IsNA(r.RIDAGEYR) /\ ~IsNA(r.RIAGENDR) /\ ~IsNA(r.BMXBMI)

\* The rows of dx of subject s and measurement column v.
RowsOf(s, v) == {i \in 1..Len(dx) : dx[i].SEQN = s /\ dx[i].bpvar = v}

\* C1: right after the melt, before any filtering, the long table has 8 rows
\* per row of the wide table, and the identifier columns of every long row
\* are those of exactly one wide row.
C1_MeltShape ==
    pc = "dropna" =>
        /\ Len(dx) = Len(df) * 8
        /\ \A i \in 1..Len(dx) :
              Cardinality({k \in 1..Len(df) : IdsOf(df[k]) = IdsOf(dx[i])}) = 1

\* C1, witness: a melted table of two subjects that still holds a row with a
\* missing reading.
C1_Witness ==
    /\ pc = "dropna"
    /\ Len(df) >= 2
    /\ \E i \in 1..Len(dx) : IsNA(dx[i].bp)

\* C2: after the dropna step a (subject, measurement) pair has its row, once
\* and with its value, exactly when the reading is not missing and the
\* subject's identifier fields are all present, whatever the subject's other
\* readings; the wide table is not filtered.
C2_DropOnlyThePair ==
    pc = "derive" =>
        \A k \in 1..Len(df) : \A j \in 1..8 :
            LET v == vvars[j]
                rows == RowsOf(df[k].SEQN, v)
            IN  IF IdsPresent(df[k]) /\ ~IsNA(df[k].bpcols[v])
                THEN /\ Cardinality(rows) = 1
                     /\ \A i \in rows : dx[i].bp = df[k].bpcols[v]
                ELSE rows = {}

\* C2, witness: after dropna, a subject with a missing reading keeps the row
\* of another, non-missing reading.
C2_Witness ==
    /\ pc = "derive"
    /\ \E k \in 1..Len(df) : \E j1, j2 \in 1..8 :
          /\ IsNA(df[k].bpcols[vvars[j1]])
          /\ ~IsNA(df[k].bpcols[vvars[j2]])
          /\ RowsOf(df[k].SEQN, vvars[j2]) # {}

AfterDerive == pc \notin {"off", "load", "melt", "dropna", "derive"}

\* The repetitions j of which the wide row r has a diastolic reading.
DiPresent(r) == {j \in 1..4 : ~IsNA(r.bpcols[DiName(j)])}

RECURSIVE DiTotal(_, _)
\* The sum of the diastolic readings j in J of the wide row r.
DiTotal(r, J) ==
    IF J = {} THEN 0
    ELSE LET j == CHOOSE x \in J : TRUE
         IN  ValueOf(r.bpcols[DiName(j)]) + DiTotal(r, J \ {j})

\* C3: once di_mean is attached, on every row of dx (the systolic rows
\* included) it is the arithmetic mean of exactly the k >= 1 non-missing
\* diastolic readings of the row's subject, and is the same on all rows of
\* the subject.
C3_DiMeanIsSubjectMean ==
    AfterDerive =>
        \A i \in 1..Len(dx) : \A k \in 1..Len(df) :
            df[k].SEQN = dx[i].SEQN =>
                LET J == DiPresent(df[k])
                IN  /\ J # {}
                    /\ dx[i].di_mean.den > 0
                    /\ dx[i].di_mean.num * Cardinality(J)
                           = DiTotal(df[k], J) * dx[i].di_mean.den
                    /\ \A i2 \in 1..Len(dx) :
                          dx[i2].SEQN = dx[i].SEQN
                              => dx[i2].di_mean = dx[i].di_mean

\* C3, witness: a systolic row carries the mean of a subject two of whose
\* diastolic readings are missing.
C3_Witness ==
    /\ AfterDerive
    /\ \E i \in 1..Len(dx) : \E k \in 1..Len(df) :
          /\ df[k].SEQN = dx[i].SEQN
          /\ dx[i].bpt = SY
          /\ Cardinality(DiPresent(df[k])) = 2

Fitting == pc \in {ModelCells[k] : k \in 1..Len(ModelCells)}

SubjectsIn(rows) == {rows[i].SEQN : i \in 1..Len(rows)}

\* The number of rows of type t of subject s.
CountRows(rows, s, t) ==
    Cardinality({i \in 1..Len(rows) : rows[i].SEQN = s /\ rows[i].bpt = t})

\* No row has a missing value in a required field.
NoMissing(rows) ==
    \A i \in 1..Len(rows) :
        /\ ~IsNA(rows[i].RIDAGEYR)
        /\ ~IsNA(rows[i].RIAGENDR)
        /\ ~IsNA(rows[i].BMXBMI)
        /\ ~IsNA(rows[i].bp)

\* C4 as stated: in the table the models are fit on, every subject present
\* has 1 to 4 systolic rows and 1 to 4 diastolic rows, and no row has a
\* missing value in a required field.
C4_OneToFourOfEachType ==
    Fitting =>
        /\ \A s \in SubjectsIn(dx) :
              /\ CountRows(dx, s, SY) \in 1..4
              /\ CountRows(dx, s, DI) \in 1..4
        /\ NoMissing(dx)

\* C4, amended: every subject present has at most 4 systolic rows and at
\* most 4 diastolic rows, possibly none of one type, and no row of dx, ds2
\* or ds3 has a missing value in a required field.
C4_AtMostFourOfEachType ==
    Fitting =>
        /\ \A s \in SubjectsIn(dx) :
              /\ CountRows(dx, s, SY) \in 0..4
              /\ CountRows(dx, s, DI) \in 0..4
              /\ CountRows(dx, s, SY) + CountRows(dx, s, DI) >= 1
        /\ NoMissing(dx) /\ NoMissing(ds2) /\ NoMissing(ds3)

\* C4, witness: model1 has been fit on a table that holds a subject with
\* diastolic rows and no systolic row.
C4_Witness ==
    /\ pc = "model2"
    /\ \E s \in SubjectsIn(dx) :
          CountRows(dx, s, SY) = 0 /\ CountRows(dx, s, DI) >= 1

---------------------------------------------------------------------------
(* Properties of nhanes_bp's fits, checked under SpecFit.                  *)

\* The printed lines that are the summary of fit k.
SummaryOf(k) ==
    {i \in 1..Len(out) : out[i].kind = "summary" /\ out[i].model = k}

\* The derived icc is cov_re / (cov_re + scale) of the latest fit.
IccIsRatio ==
    LET d == result.cov_re + result.scale
    IN  /\ icc.model = result.model
        /\ d # 0 => /\ icc.value.kind = "num"
                    /\ icc.value.num * d = result.cov_re * icc.value.den
        /\ d = 0 => icc.value.kind \in {"nan", "inf", "-inf"}

\* C5 as stated: for each fit of the mixed-model sequence, model2 to
\* model11, an intraclass correlation is derived, and it is
\* cov_re / (cov_re + scale) of that fit.
C5_IccForEveryMixedFit == result.model \in 2..11 => IccIsRatio

\* C5, amended: for model2, model3 and model4 an intraclass correlation is
\* derived, it is cov_re / (cov_re + scale) of that fit and is printed after
\* the fit's summary; none is derived or printed for model1 and for model5
\* to model11.
C5_IccForModels2To4 ==
    /\ result.model \in 2..4 =>
          /\ IccIsRatio
          /\ Len(out) >= 2
          /\ out[Len(out) - 1].kind = "summary"
          /\ out[Len(out) - 1].model = result.model
          /\ out[Len(out) - 1].flag = Flag(result)
          /\ out[Len(out)] = Line("icc", result.model, "")
    /\ result.model \in {1} \cup (5..11) =>
          /\ icc.model = 0
          /\ icc.value.kind = "none"
          /\ out[Len(out)].kind = "summary"
          /\ out[Len(out)].model = result.model

\* C5, witness: model4 returned cov_re = 2 and scale = 1 and icc4 is 2/3.
C5_Witness ==
    /\ result.model = 4 /\ result.cov_re = 2 /\ result.scale = 1
    /\ icc.model = 4 /\ icc.value.num = 2 /\ icc.value.den = 3

\* The derived icc is a number between 0 and 1.
IccInUnitInterval ==
    /\ icc.value.kind = "num"
    /\ 0 <= icc.value.num
    /\ icc.value.num <= icc.value.den

\* C6 as stated: whenever cov_re and scale of the fit are both non-negative,
\* zeros included, the icc is a defined number in [0, 1].
C6_IccInUnitIntervalIfNonNegative ==
    (icc.model # 0 /\ result.cov_re >= 0 /\ result.scale >= 0)
        => IccInUnitInterval

\* C6, amended: whenever cov_re and scale of the fit are both non-negative
\* and not both 0, the icc is a defined number in [0, 1].
C6_IccInUnitIntervalIfSumPositive ==
    (icc.model # 0 /\ result.cov_re >= 0 /\ result.scale >= 0
        /\ result.cov_re + result.scale > 0)
        => IccInUnitInterval

\* C6, witness: a fit with a residual scale of 0 and a positive cov_re has
\* an icc of exactly 1.
C6_Witness ==
    /\ icc.model = 2 /\ result.scale = 0 /\ result.cov_re > 0
    /\ icc.value.num = 1 /\ icc.value.den = 1

\* C7: when the fit returned a negative scale or a negative cov_re, the line
\* the ICC step prints is not an ordinary "icc=" line: it carries a flag.
C7_NegativeComponentIsFlagged ==
    (icc.model # 0 /\ (result.cov_re < 0 \/ result.scale < 0))
        => ~(out[Len(out)].kind = "icc" /\ out[Len(out)].flag = "")

\* C8: a fit that did not converge still returns its result, with the flag
\* false, and its summary is printed with "Converged: No"; the notebook then
\* stands at the next cell and can take it, and every fit made after a
\* non-converged one has its summary printed.
C8_ReportNeverAbort ==
    /\ result.model >= 1 =>
          /\ pc = ModelCells[result.model + 1]
          /\ SummaryOf(result.model) # {}
          /\ result.model >= 2 =>
                \A i \in SummaryOf(result.model) : out[i].flag = Flag(result)
    /\ \A i \in 1..Len(out) :
          (out[i].kind = "summary" /\ out[i].flag = "No")
              => \A k \in out[i].model..result.model : SummaryOf(k) # {}
    /\ pc # "done" => ENABLED NextFit

\* C8, witness: model5 did not converge, its summary says so, and model6 was
\* fit and reported after it.
C8_Witness ==
    /\ pc = "model7"
    /\ \E i \in SummaryOf(5) : out[i].flag = "No"
    /\ SummaryOf(6) # {}
    /\ result.model = 6

---------------------------------------------------------------------------
(* The order of the output, checked under SpecAny.                         *)

Label(l) == <<l.kind, l.model>>

RECURSIVE IsPrefix(_, _)
IsPrefix(a, b) ==
    \/ a = <<>>
    \/ /\ b # <<>>
       /\ Head(a) = Head(b)
       /\ IsPrefix(Tail(a), Tail(b))

\* What nhanes_bp prints, in order.
SurveyOutput ==
    <<<<"head", 0>>, <<"summary", 1>>, <<"summary", 2>>, <<"icc", 2>>,
      <<"summary", 3>>, <<"icc", 3>>, <<"summary", 4>>, <<"icc", 4>>,
      <<"summary", 5>>, <<"summary", 6>>, <<"summary", 7>>,
      <<"summary", 8>>, <<"summary", 9>>, <<"summary", 10>>,
      <<"summary", 11>>>>

\* What the mediation notebook prints, in order.
MediationOutput ==
    <<<<"AIE ADE", 0>>, <<"AIE ADE", 1>>, <<"AIE ADE", 2>>,
      <<"med.summary", 0>>, <<"med.summary", 1>>, <<"med.summary", 2>>>>

\* C9: the mediation notebook prints its lines for mode 0, 1, 2 in the first
\* loop and then in the second; nhanes_bp prints the summaries of model1 to
\* model11 in that order, and when fit k is about to start everything of the
\* fits before it, ICC lines included, has been printed and nothing else.
C9_OutputOrder ==
    /\ IsPrefix(Map(Label, out), SurveyOutput)
    /\ \A k \in 1..Len(ModelCells) :
          pc = ModelCells[k] =>
              LET before(e) == e[2] < k
              IN  Map(Label, out) = SelectSeq(SurveyOutput, before)
    /\ \A r \in Runs :
          /\ IsPrefix(Map(Label, mout[r]), MediationOutput)
          /\ mpc[r].cell = "done" => Map(Label, mout[r]) = MediationOutput
          /\ mpc[r].cell = "loop2" => Len(mout[r]) >= 3

\* C9, witness: nhanes_bp has run to its end and printed its 15 items.
C9_Witness == pc = "done" /\ Len(out) = 15 /\ out[15].model = 11

---------------------------------------------------------------------------
(* Reproducibility of the mediation notebook, checked under SpecMed.       *)

\* C10: two runs that both seed the generator with 2343 get the same table
\* from every gendat call both have made, and the same estimates.
C10_SeedDeterminism ==
    \A k \in 1..Min(Len(tables[1]), Len(tables[2])) :
        /\ tables[1][k] = tables[2][k]
        /\ ests[1][k] = ests[2][k]

\* C10, witness: both runs are complete, with six tables each, and the
\* tables of a run differ from call to call.
C10_Witness ==
    /\ mpc[1].cell = "done" /\ mpc[2].cell = "done"
    /\ Len(tables[1]) = 6 /\ Len(tables[2]) = 6
    /\ tables[1][1] # tables[1][4]

---------------------------------------------------------------------------
(* gendat on its own, checked under SpecGendat.                            *)

\* (r + q * sqrt(2)) / 2 times sqrt(2).
MulSqrt2(v) == Num(2 * v.q, v.r)

\* The integer e as a value of a table.
Whole(e) == Num(2 * e, 0)

\* The k-th block of n draws made from generator state s.
Block(s, k) == Draw(Advance(s, (k - 1) * n), n)

\* Table t is what gendat's recipe gives for the mode from three successive
\* blocks of n standard-normal draws made from generator state s.
FollowsRecipe(t, mode, s) ==
    LET e1 == Block(s, 1)
        e2 == Block(s, 2)
        e3 == Block(s, 3)
    IN  /\ Len(t) = n
        /\ \A i \in 1..n :
              /\ DOMAIN t[i] = {"x", "m", "y"}
              /\ t[i].x = Whole(e1[i])
              /\ MulSqrt2(t[i].m) = Add(t[i].x, Whole(e2[i]))
              /\ mode = 0 => t[i].y = Add(t[i].x, Whole(e3[i]))
              /\ mode = 1 => t[i].y = Add(t[i].m, Whole(e3[i]))
              /\ mode \notin {0, 1} =>
                    t[i].y = Add(Add(t[i].m, t[i].x), Whole(e3[i]))

\* C11: a call of gendat(mode), whatever the mode, can always be made and
\* returns a table of n rows with the columns x, m, y, where x = e1,
\* m = (x + e2) / sqrt(2) and y = x + e3 for mode 0, m + e3 for mode 1 and
\* m + x + e3 for every other mode, e1, e2, e3 being separate draws.
C11_GendatRecipe ==
    \A r \in Runs :
        /\ mpc[r] = At("call", 1) => ENABLED GendatCall(r)
        /\ frame[r].fn = "gendat" =>
              /\ tables[r] = <<frame[r].df>>
              /\ FollowsRecipe(frame[r].df, frame[r].mode, frame[r].rng0)

\* C11, witness: gendat(3) has returned a table with a row whose x and m
\* are not 0, so that the recipes of the modes give different y.
C11_Witness ==
    /\ frame[1].fn = "gendat"
    /\ frame[1].mode = 3
    /\ \E i \in 1..n :
          /\ frame[1].df[i].x # Whole(0)
          /\ frame[1].df[i].m # Whole(0)

---------------------------------------------------------------------------
(* fake_mediation on its own, checked under SpecFake.                      *)

\* The estimates the latest call of run r returned.
LastEst(r) == ests[r][Len(ests[r])]

\* The mediator value an outcome prediction was made with.
MediatorOf(o) == [a0 |-> o.b2a0, a1 |-> o.b2a1, ssm |-> o.b2ssm]

\* The mean over the units of hi - lo, coefficient by coefficient.
MeanDifference(hi, lo) ==
    [k \in DOMAIN hi[1] |->
        Frac(SumSeq([i \in 1..Len(hi) |-> hi[i][k] - lo[i][k]]), Len(hi))]

\* C12: the average indirect effect is the mean over units of the outcome
\* with the high-exposure mediator minus the outcome with the low-exposure
\* mediator, the exposure being 0 in both arms; the average direct effect is
\* the mean over units of the outcome at exposure 1 minus the outcome at
\* exposure 0, the mediator being the low-exposure draw in both arms.
C12_EffectDefinitions ==
    \A r \in Runs :
        frame[r].fn = "fake_mediation" =>
            LET m_xlow == frame[r].sets[1]
                m_xhigh == frame[r].sets[2]
                lo_i == frame[r].sets[3]
                hi_i == frame[r].sets[4]
                lo_d == frame[r].sets[5]
                hi_d == frame[r].sets[6]
            IN  /\ \A i \in 1..n :
                      /\ m_xlow[i].a1 = 0 /\ m_xhigh[i].a1 = 1
                      /\ lo_i[i].b1 = 0 /\ hi_i[i].b1 = 0
                      /\ MediatorOf(lo_i[i]) = m_xlow[i]
                      /\ MediatorOf(hi_i[i]) = m_xhigh[i]
                      /\ lo_d[i].b1 = 0 /\ hi_d[i].b1 = 1
                      /\ MediatorOf(lo_d[i]) = m_xlow[i]
                      /\ MediatorOf(hi_d[i]) = m_xlow[i]
                /\ LastEst(r).aie = MeanDifference(hi_i, lo_i)
                /\ LastEst(r).ade = MeanDifference(hi_d, lo_d)

\* C12, witness: fake_mediation(2) has returned; its indirect effect is one
\* times the product of the two slopes plus noise that is not 0, its direct
\* effect one times the slope of the exposure.
C12_Witness ==
    /\ frame[1].fn = "fake_mediation"
    /\ frame[1].mode = 2
    /\ LastEst(1).aie.b2a1 = Frac(1, 1)
    /\ LastEst(1).aie.b1 = Frac(0, 1)
    /\ LastEst(1).aie.sso # Frac(0, 1)
    /\ LastEst(1).ade.b1 = Frac(1, 1)
    /\ LastEst(1).ade.b2a1 = Frac(0, 1)

\* The number the sum of squared deviations is divided by in a standard
\* deviation.
Divisor(se) == Len(se.of) - se.ddof

\* C13: the standard errors aie_se and ade_se are the standard deviation
\* with divisor n - 1 of the n per-unit contrasts, over the root of n.
C13_SampleStdDivisor ==
    \A r \in Runs :
        frame[r].fn = "fake_mediation" =>
            /\ Len(LastEst(r).aie_se.of) = n
            /\ Len(LastEst(r).ade_se.of) = n
            /\ LastEst(r).aie_se.root = n
            /\ LastEst(r).ade_se.root = n
            /\ Divisor(LastEst(r).aie_se) = n - 1
            /\ Divisor(LastEst(r).ade_se) = n - 1

\* Set k of the latest call of run r is a set of mediator predictions at
\* exposure x, with the k-th block of noise of the call on the root of the
\* mediator model's scale.
MediatorSet(r, k, x) ==
    LET e == Block(frame[r].rng0, 3 + k)
    IN  \A i \in 1..n :
            frame[r].sets[k][i] = [a0 |-> 1, a1 |-> x, ssm |-> e[i]]

\* Set k of the latest call of run r is a set of outcome predictions at
\* exposure x and at the mediator values of set m, with the k-th block of
\* noise of the call on the root of the outcome model's scale.
OutcomeSet(r, k, x, m) ==
    LET e == Block(frame[r].rng0, 3 + k)
    IN  \A i \in 1..n :
            /\ DOMAIN frame[r].sets[k][i] =
                   {"b0", "b1", "b2a0", "b2a1", "b2ssm", "sso"}
            /\ frame[r].sets[k][i].b0 = 1
            /\ frame[r].sets[k][i].b1 = x
            /\ MediatorOf(frame[r].sets[k][i]) = frame[r].sets[m][i]
            /\ frame[r].sets[k][i].sso = e[i]

\* C14 as stated: fake_mediation makes exactly four sets of counterfactual
\* values, two of the mediator (exposure 0 and 1) and two of the outcome
\* (mediator low and high), each with its own noise, and both contrasts are
\* taken on these sets.
C14_FourSharedSets ==
    \A r \in Runs :
        frame[r].fn = "fake_mediation" =>
            /\ Len(frame[r].sets) = 4
            /\ MediatorSet(r, 1, 0)
            /\ MediatorSet(r, 2, 1)
            /\ OutcomeSet(r, 3, 0, 1)
            /\ OutcomeSet(r, 4, 0, 2)
            /\ LastEst(r).aie =
                   MeanDifference(frame[r].sets[4], frame[r].sets[3])
            /\ LastEst(r).ade =
                   MeanDifference(frame[r].sets[4], frame[r].sets[3])

\* C14, amended: fake_mediation makes six sets of counterfactual values, each
\* with a block of noise of its own on the root of its own model's scale:
\* the mediator at exposure 0 and at exposure 1; for the indirect contrast
\* the outcome at exposure 0 with the low and with the high mediator; for
\* the direct contrast the outcome with the low mediator at exposure 0 and
\* at exposure 1.  The two mediator sets serve both contrasts, no outcome
\* set does; the call makes 9n draws in all.
C14_SixSets ==
    \A r \in Runs :
        frame[r].fn = "fake_mediation" =>
            /\ Len(frame[r].sets) = 6
            /\ MediatorSet(r, 1, 0)
            /\ MediatorSet(r, 2, 1)
            /\ OutcomeSet(r, 3, 0, 1)
            /\ OutcomeSet(r, 4, 0, 2)
            /\ OutcomeSet(r, 5, 0, 1)
            /\ OutcomeSet(r, 6, 1, 1)
            /\ LastEst(r).aie =
                   MeanDifference(frame[r].sets[4], frame[r].sets[3])
            /\ LastEst(r).ade =
                   MeanDifference(frame[r].sets[6], frame[r].sets[5])
            /\ rng[r] = Advance(frame[r].rng0, 9 * n)

\* C14, witness: a call has returned in which the low arm of the direct
\* contrast differs from the low arm of the indirect contrast, both being
\* the outcome at exposure 0 with the low mediator.
C14_Witness ==
    /\ frame[1].fn = "fake_mediation"
    /\ Len(frame[1].sets) = 6
    /\ frame[1].sets[3] # frame[1].sets[5]
    /\ \E i \in 1..n : frame[1].sets[5][i].sso # 0

---------------------------------------------------------------------------
(* Further properties of nhanes_bp's data, checked under Spec.             *)

\* The subjects of the merged table with no diastolic reading.
NoDiastolic ==
    {df[k].SEQN : k \in {j \in 1..Len(df) : DiPresent(df[j]) = {}}}

\* C15: a subject with no non-missing diastolic reading has no row in dx
\* once di_mean is joined, every row there is carrying a di_mean, and no row
\* of such a subject is in ds2, the table model3 is fit on.
C15_NoDiastolicNoRows ==
    /\ AfterDerive =>
          \A i \in 1..Len(dx) :
              /\ dx[i].SEQN \notin NoDiastolic
              /\ dx[i].di_mean.den > 0
    /\ result.model = 3 =>
          /\ result.data = "ds2"
          /\ \A i \in 1..Len(ds2) : ds2[i].SEQN \notin NoDiastolic

\* C15, witness: model3 has been fit on a table that is not empty, and the
\* input holds a subject with all identifiers, a systolic reading and no
\* diastolic reading.
C15_Witness ==
    /\ result.model = 3
    /\ ds2 # <<>>
    /\ \E k \in 1..Len(df) :
          /\ df[k].SEQN \in NoDiastolic
          /\ IdsPresent(df[k])
          /\ ~IsNA(df[k].bpcols[SyName(1)])

---------------------------------------------------------------------------
(* What the fits and the calls leave alone, checked under SpecAny.         *)

\* ds2 has been built (in the cell of model2), ds3 (in the cell of model4).
Ds2Built == pc \in {ModelCells[k] : k \in 3..Len(ModelCells)}
Ds3Built == pc \in {ModelCells[k] : k \in 5..Len(ModelCells)}

\* Table new has the rows of table old, in the same order, every column of
\* old with the value it had there.
Keeps(new, old) ==
    /\ Len(new) = Len(old)
    /\ \A i \in 1..Len(old) :
          \A c \in DOMAIN old[i] :
              /\ c \in DOMAIN new[i]
              /\ new[i][c] = old[i][c]

\* The columns table new has and table old has not.
Added(new, old) ==
    UNION {DOMAIN new[i] \ DOMAIN old[i] : i \in 1..Len(new)}

\* The table named df when the latest fake_mediation returned is the table
\* gendat gave it.
GendatTableIntact ==
    \A r \in Runs :
        frame[r].fn = "fake_mediation"
            => frame[r].df = tables[r][Len(tables[r])]

\* C16 as stated: from model1 to model11 the table dx and, once built, its
\* subsets ds2 and ds3 do not change in any step, and fake_mediation leaves
\* the table gendat returned as it was.
C16_ReadOnlyDuringFits ==
    /\ [][Fitting => /\ dx' = dx
                     /\ Ds2Built => ds2' = ds2
                     /\ Ds3Built => ds3' = ds3]_vars
    /\ []GendatTableIntact

\* C16, amended: from model1 to model11 no row is added to or removed from
\* dx, ds2 or ds3 and no value of an existing column changes; columns are
\* added between fits, and only these: bpi_cen to ds3 in the cell of model6,
\* sy and di to dx in the cell of model9, sy1, sy2, sy3, di1, di2, di3 to dx
\* in the cell of model10; ds2 never changes; fake_mediation leaves the
\* table gendat returned as it was.
C16_OnlyColumnsAdded ==
    /\ [][Fitting =>
            /\ Keeps(dx', dx)
            /\ Added(dx', dx) =
                  IF dx = <<>> THEN {}
                  ELSE IF pc = "model9" THEN {"sy", "di"}
                  ELSE IF pc = "model10"
                       THEN {"sy1", "sy2", "sy3", "di1", "di2", "di3"}
                  ELSE {}
            /\ Ds2Built => ds2' = ds2
            /\ Ds3Built =>
                  /\ Keeps(ds3', ds3)
                  /\ Added(ds3', ds3) =
                        IF pc = "model6" /\ ds3 # <<>> THEN {"bpi_cen"}
                        ELSE {}]_vars
    /\ []GendatTableIntact

\* C16, witness: model10 is about to be fit and the rows of dx have the
\* columns sy and di, which they did not have when model1 was fit.
C16_Witness ==
    /\ pc = "model10"
    /\ dx # <<>>
    /\ \A i \in 1..Len(dx) : {"sy", "di"} \subseteq DOMAIN dx[i]

---------------------------------------------------------------------------
(* The coefficients gendat generates with, checked under SpecMed.          *)

Sub(v, w) == Num(v.r - w.r, v.q - w.q)

\* The change of m per unit of x in the rows gendat(mode) makes.
MediatorSlope(mode) ==
    Sub(GendatRow(mode, 1, 0, 0).m, GendatRow(mode, 0, 0, 0).m)

\* The change of y per unit of x at a fixed m: x is raised by 1 and the
\* noise of m lowered by 1, which leaves m as it was.
OutcomeSlopeX(mode) ==
    Sub(GendatRow(mode, 1, 0 - 1, 0).y, GendatRow(mode, 0, 0, 0).y)

\* The change of y per unit of m at a fixed x: the noise of m is raised by
\* 2, which raises m by sqrt(2); the change of y is divided by sqrt(2).
OutcomeSlopeM(mode) ==
    DivSqrt2(Sub(GendatRow(mode, 0, 2, 0).y, GendatRow(mode, 0, 0, 0).y))

\* 1 / sqrt(2)
InvSqrt2 == Num(0, 1)

\* The rows of table t, made from generator state s, follow m = a * x + noise
\* of m and y = x + m + noise of y, where a is 1 (exact) or 1 / sqrt(2).
RowsFollow(t, s, exact) ==
    \A i \in 1..n :
        /\ IF exact
           THEN t[i].m = Add(t[i].x, Whole(Block(s, 2)[i]))
           ELSE MulSqrt2(t[i].m) = Add(t[i].x, Whole(Block(s, 2)[i]))
        /\ t[i].y = Add(Add(t[i].x, t[i].m), Whole(Block(s, 3)[i]))

\* C17 as stated: in every table the notebook makes with mode 2, m is made
\* with a coefficient of 1 on x, y with coefficients of 1 on x and on m, and
\* the two sub-models are fit on that table.
C17_UnitCoefficients ==
    \A r \in Runs :
        (frame[r].fn = "fake_mediation" /\ frame[r].mode = 2) =>
            /\ MediatorSlope(2) = Whole(1)
            /\ OutcomeSlopeX(2) = Whole(1)
            /\ OutcomeSlopeM(2) = Whole(1)
            /\ RowsFollow(frame[r].df, frame[r].rng0, TRUE)
            /\ LastEst(r).fit = frame[r].df

\* C17, amended: in every table the notebook makes with mode 2, m is made
\* with a coefficient of 1 / sqrt(2) on x, y with coefficients of 1 on x and
\* on m, and the two sub-models are fit on that table.
C17_MediatorCoefficientInvSqrt2 ==
    \A r \in Runs :
        (frame[r].fn = "fake_mediation" /\ frame[r].mode = 2) =>
            /\ MediatorSlope(2) = InvSqrt2
            /\ OutcomeSlopeX(2) = Whole(1)
            /\ OutcomeSlopeM(2) = Whole(1)
            /\ RowsFollow(frame[r].df, frame[r].rng0, FALSE)
            /\ LastEst(r).fit = frame[r].df

\* C17, witness: the pass of the first loop with mode 2 is done in a seeded
\* run, on a table with a row whose x is not 0.
C17_Witness ==
    /\ mpc[1] = At("loop2", 1)
    /\ frame[1].fn = "fake_mediation"
    /\ frame[1].mode = 2
    /\ frame[1].rng0 = Advance(SeedState(SeedValue), 18 * n)
    /\ \E i \in 1..n : frame[1].df[i].x # Whole(0)

---------------------------------------------------------------------------
(* Attempts of a fit, checked under SpecAny.                               *)

\* Every model up to the latest one has been fit by one call, of which the
\* summary is printed once; no later model has been fit.  Every pass of the
\* mediation loops has made one estimate.
OneCallPerFit ==
    /\ \A k \in 1..(Len(ModelCells) - 1) :
          Cardinality(SummaryOf(k)) = IF k <= result.model THEN 1 ELSE 0
    /\ \A r \in Runs : Len(ests[r]) = Len(mout[r])

\* C18 as stated: each model is fit by one call, and within it the
\* optimization is attempted once: a result, converged or not, is that of
\* the first optimizer.
C18_NoRetries ==
    /\ OneCallPerFit
    /\ result.model >= 1 => result.attempts = 1

\* C18, amended: each model is fit by one call, which the notebook never
\* repeats; within the call the solver goes through its optimizers in order
\* (bfgs, lbfgs, cg), trying the next one after one that did not converge,
\* so that a result reported as not converged is one that all three were
\* tried for.
C18_OneCallSolverRetries ==
    /\ OneCallPerFit
    /\ result.model = 1 => result.attempts = 1
    /\ result.model >= 2 =>
          /\ result.attempts \in 1..Len(Optimizers)
          /\ ~result.converged => result.attempts = Len(Optimizers)

\* C18, witness: model5 did not converge; three optimizers were tried in its
\* one call and its summary is printed once.
C18_Witness ==
    /\ result.model = 5
    /\ ~result.converged
    /\ result.attempts = 3
    /\ Cardinality(SummaryOf(5)) = 1

---------------------------------------------------------------------------
(* Invalid standard errors, checked under SpecSe.                          *)

\* C19: when the variance under the root of a standard error is negative,
\* that standard error is nan and its field of the summary is blank; the
\* summary is still printed, with its "Converged:" field; the notebook
\* stands at the next cell and can take it, and every fit after one with a
\* blank field has its summary printed.
C19_InvalidFieldOnlyUnset ==
    /\ result.model >= 2 =>
          /\ pc = ModelCells[result.model + 1]
          /\ Cardinality(SummaryOf(result.model)) = 1
          /\ \A i \in SummaryOf(result.model) :
                /\ out[i].flag = Flag(result)
                /\ out[i].se = IF IsNA(result.bse) THEN "" ELSE "num"
    /\ \A i \in 1..Len(out) :
          (out[i].kind = "summary" /\ out[i].model >= 2 /\ out[i].se = "")
              => \A k \in out[i].model..result.model : SummaryOf(k) # {}
    /\ pc # "done" => ENABLED NextSe

\* C19, witness: the summary of model10 has a blank standard error and says
\* "Converged: Yes"; model11 was fit after it, and its summary, with a blank
\* standard error and "Converged: No", is printed.
C19_Witness ==
    /\ pc = "done"
    /\ IsNA(result.bse)
    /\ \E i \in SummaryOf(10) : out[i].se = "" /\ out[i].flag = "Yes"
    /\ \E i \in SummaryOf(11) : out[i].se = "" /\ out[i].flag = "No"

\* The column name rebuilt from a type tag and a repetition index.
NameOf(bpt, bpi) == <<"B", "P", "X">> \o bpt \o <<Digit(bpi)>>

\* C20: for each of the 8 melted column names the type tag is SY or DI, the
\* repetition index is an integer in 1..4 and "BPX" + tag + index gives the
\* name back, so that two names with the same pair are the same name; once
\* the derived columns are added every row of dx carries the tag and index
\* of its own bpvar, and female is 1 when RIAGENDR is 2 and 0 otherwise.
C20_DerivedFromColumnName ==
    /\ \A j \in 1..Len(vvars) :
          /\ Bpt(vvars[j]) \in {SY, DI}
          /\ Bpi(vvars[j]) \in 1..4
          /\ NameOf(Bpt(vvars[j]), Bpi(vvars[j])) = vvars[j]
          /\ \A k \in 1..Len(vvars) :
                (Bpt(vvars[k]) = Bpt(vvars[j]) /\ Bpi(vvars[k]) = Bpi(vvars[j]))
                    => k = j
    /\ AfterDerive =>
          \A i \in 1..Len(dx) :
              /\ \E j \in 1..Len(vvars) : dx[i].bpvar = vvars[j]
              /\ dx[i].bpt \in {SY, DI}
              /\ dx[i].bpi \in 1..4
              /\ NameOf(dx[i].bpt, dx[i].bpi) = dx[i].bpvar
              /\ dx[i].female \in {0, 1}
              /\ dx[i].female = 1 <=> dx[i].RIAGENDR = Val(2)

\* C20, witness: after the derived columns are added dx holds a systolic and
\* a diastolic row, a row of a repetition other than the first, a row of a
\* woman and a row of a man.
C20_Witness ==
    /\ AfterDerive
    /\ \E i, j \in 1..Len(dx) :
          /\ dx[i].bpt = SY /\ dx[j].bpt = DI
          /\ dx[i].bpi > 1
          /\ dx[i].female = 1 /\ dx[i].RIAGENDR = Val(2)
          /\ dx[j].female = 0 /\ dx[j].RIAGENDR = Val(1)

\* The 3n draws made from generator state s1 are those made from s2.
SameDraws(s1, s2) ==
    \A k \in 1..3 : Block(s1, k) = Block(s2, k)

\* A call of run r is made in this step.
Calls(r) == mpc'[r] # mpc[r]

\* C21: every call starts from the generator state the call before it left;
\* a gendat call builds its table from the 3n draws that follow and leaves
\* the generator 3n draws on, whatever the mode; a fake_mediation call
\* leaves it 9n draws on, 3n made by gendat, 2n for the two sets of
\* mediator values and 4n for the four sets of outcome values; and a gendat
\* call that follows a gendat call of the same mode, with no seeding in
\* between, returns a table that differs from the one returned before.
C21_FixedDrawsPerCall ==
    [][\A r \in Runs :
          Calls(r) =>
              /\ frame'[r].rng0 = rng[r]
              /\ frame'[r].fn = "gendat" =>
                    /\ FollowsRecipe(frame'[r].df, frame'[r].mode, rng[r])
                    /\ rng'[r] = Advance(rng[r], 3 * n)
              /\ frame'[r].fn = "fake_mediation" =>
                    /\ FollowsRecipe(frame'[r].df, frame'[r].mode, rng[r])
                    /\ Len(frame'[r].sets) = 6
                    /\ \A k \in 1..2 : \A i \in 1..n :
                          frame'[r].sets[k][i].ssm = Block(rng[r], 3 + k)[i]
                    /\ \A k \in 3..6 : \A i \in 1..n :
                          frame'[r].sets[k][i].sso = Block(rng[r], 3 + k)[i]
                    /\ rng'[r] = Advance(rng[r], 9 * n)
              /\ ( /\ frame[r].fn = "gendat"
                   /\ frame'[r].fn = "gendat"
                   /\ frame'[r].mode = frame[r].mode )
                    => /\ frame'[r].df # frame[r].df
                       /\ ~SameDraws(frame[r].rng0, rng[r])
    ]_vars

\* C21, witness: two gendat calls of the same mode were made one after the
\* other with no seeding in between, and the second returned a table that
\* differs from the first.
C21_Witness ==
    /\ mpc[1] = At("session", 3)
    /\ ests[1] = <<>>
    /\ frame[1].fn = "gendat"
    /\ Len(tables[1]) = 2
    /\ tables[1][2] = frame[1].df
    /\ tables[1][1] # tables[1][2]
    /\ \E s \in 0..(RngStates - 1) :
          /\ Advance(s, 3 * n) = frame[1].rng0
          /\ FollowsRecipe(tables[1][1], frame[1].mode, s)

\* The table a fit names as its data.
DataOf(name) ==
    CASE name = "dx" -> dx
      [] name = "ds2" -> ds2
      [] name = "ds3" -> ds3

\* The rows of dx of the subjects that have a diastolic reading, in the
\* order of dx.
WithDiastolic ==
    LET has(r) == \E k \in 1..Len(df) :
                      df[k].SEQN = r.SEQN /\ DiPresent(df[k]) # {}
    IN  SelectSeq(dx, has)

\* C22: the cell that joins di_mean leaves in dx, in their order, exactly
\* the rows of the subjects that have a non-missing diastolic reading; and
\* every fit, model1 to model11, is made on dx, ds2 or ds3, none of which
\* holds a row of a subject without one, whether or not the fit uses
\* di_mean.
C22_NoDiastolicInNoFit ==
    /\ [][(pc = "derive" /\ pc' # "derive") =>
             \A kept \in {WithDiastolic} :
                 /\ Len(dx') = Len(kept)
                 /\ \A i \in 1..Len(dx') :
                       /\ dx'[i].SEQN = kept[i].SEQN
                       /\ dx'[i].bpvar = kept[i].bpvar
                       /\ dx'[i].bp = kept[i].bp
       ]_vars
    /\ [](result.model \in 1..11 =>
             /\ result.data \in {"dx", "ds2", "ds3"}
             /\ \A k \in 1..Len(df) :
                   DiPresent(df[k]) = {} =>
                       \A i \in 1..Len(DataOf(result.data)) :
                           DataOf(result.data)[i].SEQN # df[k].SEQN)
    /\ [](AfterDerive =>
             \A k \in 1..Len(df) :
                 DiPresent(df[k]) = {} =>
                     \A t \in {dx, ds2, ds3} : \A i \in 1..Len(t) :
                         t[i].SEQN # df[k].SEQN)

\* C22, witness: model11, which does not use di_mean, has been fit on a dx
\* that is not empty, and the input holds a subject with all identifiers
\* and two systolic readings but no diastolic reading.
C22_Witness ==
    /\ result.model = 11
    /\ result.data = "dx"
    /\ dx # <<>>
    /\ \E k \in 1..Len(df) :
          /\ df[k].SEQN \in NoDiastolic
          /\ IdsPresent(df[k])
          /\ ~IsNA(df[k].bpcols[SyName(1)])
          /\ ~IsNA(df[k].bpcols[SyName(2)])

\* The cut has been made.
AfterCut == AfterDerive /\ pc # "subsample"

\* Row r of a table cut from dx is row j of dx, on the columns both have
\* from the start.
IsRow(r, j) ==
    /\ dx[j].SEQN = r.SEQN
    /\ dx[j].bpvar = r.bpvar
    /\ dx[j].bp = r.bp
    /\ dx[j].di_mean = r.di_mean

\* C23: the subsample cell keeps the first min(SubsampleRows, number of
\* rows) rows of dx, which is in the order of SEQN and carries di_mean, and
\* drops the rest, whatever subject they belong to; no later cell adds or
\* drops a row, and every fit is made on rows of this dx; and the di_mean
\* of a retained row is still the mean of all non-missing diastolic
\* readings of its subject, retained or not.
C23_CutByPosition ==
    /\ [][(pc = "subsample" /\ pc' # "subsample") =>
             /\ \A i \in 1..(Len(dx) - 1) : dx[i].SEQN <= dx[i + 1].SEQN
             /\ Len(dx') = Min(SubsampleRows, Len(dx))
             /\ \A i \in 1..Len(dx') : dx'[i] = dx[i]
       ]_vars
    /\ [][AfterCut =>
             /\ Len(dx') = Len(dx)
             /\ \A i \in 1..Len(dx) : IsRow(dx'[i], i)
       ]_vars
    /\ [](AfterCut =>
             /\ Len(dx) <= SubsampleRows
             /\ \A t \in {ds2, ds3} : \A i \in 1..Len(t) :
                   \E j \in 1..Len(dx) : IsRow(t[i], j)
             /\ \A i \in 1..Len(dx) : \A k \in 1..Len(df) :
                   df[k].SEQN = dx[i].SEQN =>
                       dx[i].di_mean.num * Cardinality(DiPresent(df[k]))
                           = DiTotal(df[k], DiPresent(df[k]))
                                 * dx[i].di_mean.den)

\* C23, witness: model1 has been fit on a dx of SubsampleRows rows whose
\* last subject has a diastolic row in it and more diastolic readings than
\* diastolic rows: the cut fell inside the subject, and its di_mean is the
\* mean of readings some of which were dropped.
C23_Witness ==
    /\ result.model = 1
    /\ Len(dx) = SubsampleRows
    /\ \E k \in 1..Len(df) :
          /\ df[k].SEQN = dx[Len(dx)].SEQN
          /\ IdsPresent(df[k])
          /\ CountRows(dx, df[k].SEQN, DI) >= 1
          /\ CountRows(dx, df[k].SEQN, DI) < Cardinality(DiPresent(df[k]))

\* The six indicators of row r, in the order sy1, sy2, sy3, di1, di2, di3.
RepIndicators(r) == <<r.sy1, r.sy2, r.sy3, r.di1, r.di2, r.di3>>

\* The number of rows of table t that are row j of dx.
Copies(t, j) == Cardinality({i \in 1..Len(t) : IsRow(t[i], j)})

\* C24: from model9 on every row of dx has sy and di, each 0 or 1, with
\* sy + di = 1; from model10 on every row has the six indicators, each 0 or
\* 1 and at most one of them 1, those of the other type all 0 and, on a
\* fourth reading, all six 0, the one of the row's own type and index being
\* 1 on a first, second or third reading; and once ds2 and ds3 are both
\* selected, every row of dx is in exactly one of them, and they hold
\* nothing else.
C24_IndicatorsAndPartition ==
    /\ result.model >= 9 =>
          \A i \in 1..Len(dx) :
              /\ dx[i].sy \in {0, 1} /\ dx[i].di \in {0, 1}
              /\ dx[i].sy + dx[i].di = 1
              /\ dx[i].sy = 1 <=> dx[i].bpt = SY
    /\ result.model >= 10 =>
          \A i \in 1..Len(dx) :
              LET ind == RepIndicators(dx[i])
              IN  /\ \A k \in 1..6 : ind[k] \in {0, 1}
                  /\ SumSeq(ind) <= 1
                  /\ dx[i].bpt = SY => \A k \in 4..6 : ind[k] = 0
                  /\ dx[i].bpt = DI => \A k \in 1..3 : ind[k] = 0
                  /\ dx[i].bpi = 4 => SumSeq(ind) = 0
                  /\ (dx[i].bpt = SY /\ dx[i].bpi < 4) => ind[dx[i].bpi] = 1
                  /\ (dx[i].bpt = DI /\ dx[i].bpi < 4)
                        => ind[3 + dx[i].bpi] = 1
    /\ result.model >= 4 =>
          /\ Len(ds2) + Len(ds3) = Len(dx)
          /\ \A j \in 1..Len(dx) :
                /\ Copies(ds2, j) + Copies(ds3, j) = 1
                /\ Copies(ds2, j) = 1 <=> dx[j].bpt = SY

\* C24, witness: model10 has been fit on a dx that holds a first systolic
\* reading, a second diastolic reading and a fourth reading, with ds2 and
\* ds3 both holding rows.
C24_Witness ==
    /\ result.model = 10
    /\ ds2 # <<>> /\ ds3 # <<>>
    /\ \E i, j, k \in 1..Len(dx) :
          /\ dx[i].sy1 = 1 /\ dx[i].sy = 1
          /\ dx[j].di2 = 1 /\ dx[j].di = 1
          /\ dx[k].bpi = 4 /\ SumSeq(RepIndicators(dx[k])) = 0

====
